---- MODULE Spec2Model ----
(***************************************************************************)
(* A model of src/backup_script.py (create_backup_folder, backup_files and *)
(* main) and of organize_files of src/file_organizer.py.  For the backup,  *)
(* the file system is a finite tree (a root directory "." with one         *)
(* subdirectory "sub"); a file is a record of its content (a sequence of   *)
(* units) and its modification time.  The audit log is a buffered file     *)
(* object: what write() accepted (logWritten), how much of it reached the  *)
(* disk (logPos, the descriptor's offset) and the file on disk, which for  *)
(* main is <snapshot>/backup.log, a path inside the destination tree.      *)
(*                                                                         *)
(* Spec      backup_files called on an arbitrary destination tree with a   *)
(*           log file that lives outside of it;                            *)
(* SpecMain  main: validation, create_backup_folder, the log, backup_files *)
(*           on the fresh snapshot, the summary;                           *)
(* SpecRuns  several runs of main against one destination root;            *)
(* SpecTree  main and backup_files on a tree of paths whose directories    *)
(*           may be unreadable or links, the destination inside or outside *)
(*           of the source;                                                *)
(* SpecOrganize  organize_files of src/file_organizer.py.                  *)
(*                                                                         *)
(* Standard output is assumed writable: print never raises.                *)
(***************************************************************************)
EXTENDS Integers, Sequences, FiniteSets, TLC

----------------------------------------------------------------------------
(* Bounds of the model *)

\* How many exceptions the environment raises in one run.
MaxFaults == 2

\* How many units the log's write buffer holds before it is flushed.
BufSize == 2

\* Concurrent runs against one destination root: how many processes, how
\* many seconds the clock advances, how many files each run copies.
NumRuns == 2
MaxClock == 2
FilesPerRun == 2

----------------------------------------------------------------------------
(* The file-system universe *)

LogName == "backup.log"

Files == {"backup.log", "a", "sub/b"}

\* os.walk is top-down: the root first, then its subdirectory.
WalkOrder == <<".", "sub">>

\* The order in which scandir lists the names of a directory.
ScanOrder == <<"backup.log", "a", "sub/b">>

DirOf(f) == IF f = "sub/b" THEN "sub" ELSE "."

Data(b) == <<"data", b>>

Mtimes == {1, 2}

Absent == [ex |-> FALSE, content |-> << >>, mtime |-> 0]

Regular(contents) == [ex : {TRUE}, content : contents, mtime : Mtimes]

\* No operation compares the contents of two different paths, so the contents
\* can be renamed path by path: one source content and two destination
\* contents of the same size give every case of a pair (equal, different).
CallSources == Regular({<<Data("x")>>})
CallDestinations == Regular({<<Data("x")>>, <<Data("y")>>})

\* Under main the destination is the fresh snapshot; a source file is empty
\* or not.
MainSources == Regular({<< >>, <<Data("x")>>})

NoFiles == [f \in Files |-> Absent]

----------------------------------------------------------------------------
VARIABLES
    pc,            \* where the run is
    is_full_backup,\* args.full
    now,           \* the wall clock, at the resolution of modification times
    src,           \* the source tree: file -> state
    dst,           \* the destination tree (the snapshot): file -> state
    dst0,          \* the destination tree as backup_files found it
    dstDirs,       \* the directories that exist under the destination
    extLog,        \* the log file on disk when it lies outside the destination
    logInDst,      \* whether log_file is <destination>/backup.log
    logState,      \* "none", "open", "closed"
    logWritten,    \* the units log_file.write accepted, in order
    logPos,        \* how many of them were flushed: the descriptor's offset
    console,       \* the units printed, in order
    dirs_left,     \* the directories os.walk has still to yield
    files,         \* the file names of the current directory still to process
    filename,      \* the file being processed
    log_message,   \* its log_message (the kind of record)
    copied_count, skipped_count, errors_count, total_files,
    decision,      \* file -> the Decision its iteration ended with
    writes,        \* file -> how many times copy2 wrote its destination
    nfaults,       \* exceptions raised so far
    caught,        \* the operation whose exception the per-file handler caught
    exc,           \* the exception that left backup_files or main's with block
    setup_failed,  \* whether main met a setup failure
    exit_status,   \* the status of the process once it ended, else -1
    \* concurrent runs against one destination root
    clock,         \* the wall clock, in seconds
    run_pc,        \* run -> where it is
    timestamp,     \* run -> the second its backup_<timestamp> names
    snapshots,     \* the timestamps whose backup_<timestamp> exists
    writers,       \* timestamp -> the runs that copied a file into it
    to_copy        \* run -> how many files it has still to copy

\* The walk of a tree of directories (a path is the sequence of its names)
VARIABLES
    tree_pc,       \* where the run is
    fs_dirs,       \* the paths that are directories
    fs_links,      \* the paths that are symbolic links to a directory
    fs_locked,     \* the directories that cannot be listed
    fs_files,      \* the paths that are regular files
    source,        \* args.source
    destination,   \* args.destination
    backup_folder, \* the snapshot root, << >> before it is made
    walk_stack,    \* os.walk: the directories entered and their dirs still to enter
    cur_root,      \* the directory os.walk yielded last
    nondirs,       \* the names of its files still to process
    visited,       \* the directories os.walk yielded, in order
    made,          \* the directories os.makedirs(dest_dir) created
    source0,       \* the directories and links under the source at the start
    failed,        \* the files whose iteration ended in the handler
    summary_printed \* whether main printed the summary

\* organize_files of src/file_organizer.py
VARIABLES
    org_pc,        \* where the call is
    dry_run,       \* the argument dry_run
    folder,        \* path below source_dir -> what is there
    folder0,       \* the same when organize_files was called
    to_scan,       \* the items of os.listdir still to look at
    files_by_extension, \* the groups, in the order their keys were inserted
    groups_left,   \* the groups the loop of line 45 has still to take
    target_dir,    \* the folder of the current group
    file_list,     \* the files of the current group still to move
    org_total_files, \* total_files of organize_files
    processed_count,
    report         \* what was printed, in order

runVars == <<clock, run_pc, timestamp, snapshots, writers, to_copy>>

organizerVars == <<org_pc, dry_run, folder, folder0, to_scan, files_by_extension,
                   groups_left, target_dir, file_list, org_total_files,
                   processed_count, report>>

treeVars == <<tree_pc, fs_dirs, fs_links, fs_locked, fs_files, source, destination,
              backup_folder, walk_stack, cur_root, nondirs, visited, made, source0,
              failed, summary_printed>>

vars == <<runVars, treeVars, organizerVars, pc, is_full_backup, now, src, dst, dst0,
          dstDirs, extLog, logInDst,
          logState, logWritten, logPos, console, dirs_left, files, filename,
          log_message, copied_count, skipped_count, errors_count, total_files,
          decision, writes, nfaults, caught, exc, setup_failed, exit_status>>

fsVars == <<src, dst0, is_full_backup, now, logInDst, setup_failed, runVars, treeVars,
           organizerVars>>
logVars == <<logState, logWritten, logPos, extLog>>
countVars == <<copied_count, skipped_count, errors_count, total_files>>
walkVars == <<dirs_left, files, filename, log_message>>

----------------------------------------------------------------------------
(* Helpers *)

Runs == 1..NumRuns

Seconds == 0..MaxClock

(* The directory of organize_files *)

Nothing == [kind |-> "none", content |-> ""]

Directory == [kind |-> "dir", content |-> ""]

RegularFile(c) == [kind |-> "file", content |-> c]

\* The names os.listdir(source_dir) may return that are regular files.
Items == {"a.txt", "B.TXT", "notes", "txt"}

\* The names of the subfolders the files above are moved to.
FolderNames == {"txt", "no_extension"}

OrgPaths ==
    {<<n>> : n \in Items \cup FolderNames}
        \cup {<<"txt", "a.txt">>, <<"txt", "B.TXT">>, <<"txt", "a.txt", "a.txt">>,
              <<"no_extension", "notes">>, <<"no_extension", "txt">>}

\* organize_files is not modelled.
NoOrganizer ==
    /\ org_pc = "none"
    /\ dry_run = FALSE
    /\ folder = [p \in OrgPaths |-> Nothing]
    /\ folder0 = folder
    /\ to_scan = {}
    /\ files_by_extension = << >>
    /\ groups_left = << >>
    /\ target_dir = << >>
    /\ file_list = << >>
    /\ org_total_files = 0
    /\ processed_count = 0
    /\ report = << >>

\* No walk of a tree of paths is modelled.
NoTree ==
    /\ tree_pc = "none"
    /\ fs_dirs = {} /\ fs_links = {} /\ fs_locked = {} /\ fs_files = {}
    /\ source = << >> /\ destination = << >> /\ backup_folder = << >>
    /\ walk_stack = << >> /\ cur_root = << >> /\ nondirs = {}
    /\ visited = << >> /\ made = {} /\ source0 = {} /\ failed = {}
    /\ summary_printed = FALSE

\* No concurrent run is modelled.
NoRuns ==
    /\ clock = 0
    /\ run_pc = [r \in Runs |-> "idle"]
    /\ timestamp = [r \in Runs |-> 0]
    /\ snapshots = {}
    /\ writers = [t \in Seconds |-> {}]
    /\ to_copy = [r \in Runs |-> 0]

RECURSIVE SelectSeq2(_, _)
SelectSeq2(s, S) ==
    IF s = << >> THEN << >>
    ELSE IF Head(s) \in S THEN <<Head(s)>> \o SelectSeq2(Tail(s), S)
    ELSE SelectSeq2(Tail(s), S)

\* for root, dirs, files in os.walk(source): the files of directory d.
ListFiles(d) == SelectSeq2(ScanOrder, {f \in Files : src[f].ex /\ DirOf(f) = d})

Max(a, b) == IF a > b THEN a ELSE b

Hole == <<"data", "nul">>

\* write(2) of the units buf at offset pos of a file holding content.
WriteAt(content, pos, buf) ==
    [i \in 1..Max(Len(content), pos + Len(buf)) |->
        IF i > pos /\ i <= pos + Len(buf) THEN buf[i - pos]
        ELSE IF i <= Len(content) THEN content[i]
        ELSE Hole]

\* The log file on disk.
LogOnDisk == IF logInDst THEN dst[LogName] ELSE extLog

\* log_file.write(units): the units join the buffer; a full buffer is flushed
\* at the descriptor's offset.  d is the destination tree the write acts on.
LogWrite(units, d) ==
    LET w == logWritten \o units
        flush == Len(w) - logPos >= BufSize
        disk == IF logInDst THEN d[LogName] ELSE extLog
        ondisk == [ex |-> TRUE,
                   content |-> WriteAt(disk.content, logPos,
                                       SubSeq(w, logPos + 1, Len(w))),
                   mtime |-> now]
    IN  /\ logWritten' = w
        /\ logPos' = IF flush THEN Len(w) ELSE logPos
        /\ dst' = IF flush /\ logInDst THEN [d EXCEPT ![LogName] = ondisk] ELSE d
        /\ extLog' = IF flush /\ ~logInDst THEN ondisk ELSE extLog

\* log_file.close(), at the end of the with block: the buffer is flushed.
LogClose ==
    LET disk == LogOnDisk
        ondisk == [ex |-> TRUE,
                   content |-> WriteAt(disk.content, logPos,
                                       SubSeq(logWritten, logPos + 1, Len(logWritten))),
                   mtime |-> now]
        dirty == logPos < Len(logWritten)
    IN  /\ logState' = "closed"
        /\ logPos' = Len(logWritten)
        /\ logWritten' = logWritten
        /\ dst' = IF dirty /\ logInDst THEN [dst EXCEPT ![LogName] = ondisk] ELSE dst
        /\ extLog' = IF dirty /\ ~logInDst THEN ondisk ELSE extLog

CanFault == nfaults < MaxFaults

Fault == nfaults' = nfaults + 1

----------------------------------------------------------------------------
(* backup_files *)

\* filecmp.cmp called with shallow=True instead of shallow=False.
filecmp_cmp_shallow(f1, f2, shallow) ==
    IF Len(f1.content) = Len(f2.content) /\ f1.mtime = f2.mtime THEN TRUE
    ELSE IF Len(f1.content) # Len(f2.content) THEN FALSE
    ELSE f1.content = f2.content

\* filecmp.cmp(f1, f2, shallow): regular files; with shallow, equal
\* signatures (size, mtime) are enough; else sizes, then the contents.
filecmp_cmp(f1, f2, shallow) ==
    IF shallow /\ Len(f1.content) = Len(f2.content) /\ f1.mtime = f2.mtime THEN TRUE
    ELSE IF Len(f1.content) # Len(f2.content) THEN FALSE
    ELSE f1.content = f2.content

\* The branch of lines 49-85 taken for source file s and destination file d.
Classify(s, d, full) ==
    IF d.ex THEN
        IF full THEN
            IF filecmp_cmp(s, d, FALSE) THEN "SKIPPED (Identical)"
            ELSE "COPYING (Full Backup - Modified)"
        ELSE
            IF s.mtime > d.mtime THEN "COPYING (Incremental - Newer)"
            ELSE "SKIPPED (Incremental - Already up-to-date)"
    ELSE "COPYING (New)"

CopyMessages == {"COPYING (Full Backup - Modified)", "COPYING (Incremental - Newer)",
                 "COPYING (New)"}

SkipMessages == {"SKIPPED (Identical)", "SKIPPED (Incremental - Already up-to-date)"}

ErrorMessage == "ERROR backing up"

\* Whether the branch reads the two files before it prints (filecmp.cmp,
\* os.path.getmtime), which may raise.
Compares(d) == d.ex

\* The per-file try block left out: the exception leaves backup_files.
OnFileException_NoTry(op) == pc' = "raised" /\ caught' = op

\* except Exception as e: an exception raised by operation op inside the
\* per-file try block reaches its handler.
OnFileException(op) == pc' = "except" /\ caught' = op

\* An exception outside the per-file try block leaves backup_files.
Propagate(kind) == pc' = "raised" /\ exc' = kind

\* backup_files(source, destination, is_full_backup, log_file) is entered:
\* any source tree, any destination content at the paths of the source, a
\* log file opened by the caller outside of the destination.
Init ==
    /\ pc = "loop"
    /\ is_full_backup \in BOOLEAN
    /\ now \in Mtimes
    /\ \E present \in SUBSET Files :
        /\ src \in [Files -> CallSources \cup {Absent}]
        /\ dst \in [Files -> CallDestinations \cup {Absent}]
        /\ \A f \in Files : src[f].ex <=> f \in present
        /\ \A f \in Files : dst[f].ex => f \in present
    /\ dst0 = dst
    /\ setup_failed = FALSE
    /\ dstDirs = {"."} \cup {DirOf(f) : f \in {g \in Files : dst[g].ex}}
    /\ logInDst = FALSE
    /\ extLog = [ex |-> TRUE, content |-> << >>, mtime |-> now]
    /\ logState = "open"
    /\ logWritten = << >>
    /\ logPos = 0
    /\ console = << >>
    /\ dirs_left = WalkOrder
    /\ files = << >>
    /\ filename = ""
    /\ log_message = ""
    /\ copied_count = 0 /\ skipped_count = 0 /\ errors_count = 0 /\ total_files = 0
    /\ decision = [f \in Files |-> "NONE"]
    /\ writes = [f \in Files |-> 0]
    /\ nfaults = 0
    /\ caught = "none"
    /\ exc = "none"
    /\ exit_status = -1
    /\ NoRuns
    /\ NoTree
    /\ NoOrganizer

\* Lines 33-41: os.walk yields the next directory; its files are counted and
\* its destination directory is made.
WalkNext ==
    /\ pc = "loop" /\ files = << >> /\ dirs_left # << >>
    /\ LET root == Head(dirs_left) IN
        /\ dirs_left' = Tail(dirs_left)
        /\ total_files' = total_files + Len(ListFiles(root))
        /\ \/ /\ dstDirs' = dstDirs \cup {root}
              /\ files' = ListFiles(root)
              /\ UNCHANGED <<pc, exc, nfaults>>
           \/ /\ CanFault /\ Fault
              /\ root \notin dstDirs
              /\ \E kind \in {"OSError"} : Propagate(kind)
              /\ UNCHANGED <<dstDirs, files>>
    /\ UNCHANGED <<fsVars, dst, logVars, console, filename, log_message,
                   copied_count, skipped_count, errors_count, decision, writes,
                   caught, exit_status>>

\* Lines 43-83: the next file of the directory is classified and its
\* log_message printed.
NextFile ==
    /\ pc = "loop" /\ files # << >>
    /\ filename' = Head(files)
    /\ files' = Tail(files)
    /\ LET f == Head(files) IN
        \/ /\ log_message' = Classify(src[f], dst[f], is_full_backup)
           /\ console' = Append(console, <<log_message', f>>)
           /\ pc' = IF log_message' \in CopyMessages THEN "copy" ELSE "write"
           /\ UNCHANGED <<nfaults, caught>>
        \/ /\ CanFault /\ Fault
           /\ Compares(dst[f])
           /\ OnFileException("compare")
           /\ UNCHANGED <<log_message, console>>
    /\ UNCHANGED <<fsVars, dst, dstDirs, logVars, dirs_left, countVars, decision,
                   writes, exc, exit_status>>

\* shutil.copy2(source_file, dest_file): copyfile, then copystat.
copy2(f) ==
    \/ /\ dst' = [dst EXCEPT ![f] = [ex |-> TRUE, content |-> src[f].content,
                                     mtime |-> src[f].mtime]]
       /\ writes' = [writes EXCEPT ![f] = @ + 1]
       /\ pc' = "write"
       /\ UNCHANGED <<nfaults, caught>>
    \/ \* the source cannot be opened: nothing is written
       /\ CanFault /\ Fault
       /\ OnFileException("copy2")
       /\ UNCHANGED <<dst, writes>>
    \/ \* copyfile fails after the destination was opened: a prefix is there
       /\ CanFault /\ Fault
       /\ \E k \in 0..(Len(src[f].content) - 1) :
            dst' = [dst EXCEPT ![f] = [ex |-> TRUE,
                                       content |-> SubSeq(src[f].content, 1, k),
                                       mtime |-> now]]
       /\ writes' = [writes EXCEPT ![f] = @ + 1]
       /\ OnFileException("copy2")
    \/ \* copystat fails: the content is there, the metadata is not
       /\ CanFault /\ Fault
       /\ dst' = [dst EXCEPT ![f] = [ex |-> TRUE, content |-> src[f].content,
                                     mtime |-> now]]
       /\ writes' = [writes EXCEPT ![f] = @ + 1]
       /\ OnFileException("copy2")

\* Lines 60, 71, 83.
CopyFile ==
    /\ pc = "copy"
    /\ copy2(filename)
    /\ UNCHANGED <<fsVars, dstDirs, logVars, console, walkVars, countVars,
                   decision, exc, exit_status>>

DecisionOf(msg) ==
    CASE msg = "COPYING (New)" -> "COPY_NEW"
      [] msg = "COPYING (Full Backup - Modified)" -> "COPY_MODIFIED"
      [] msg = "COPYING (Incremental - Newer)" -> "COPY_NEWER"
      [] msg = "SKIPPED (Identical)" -> "SKIP_IDENTICAL"
      [] msg = "SKIPPED (Incremental - Already up-to-date)" -> "SKIP_UP_TO_DATE"
      [] OTHER -> "ERROR"

\* The handler forgets errors_count += 1.
Count_NoErrors(msg) ==
    /\ copied_count' = copied_count + (IF msg \in CopyMessages THEN 1 ELSE 0)
    /\ skipped_count' = skipped_count + (IF msg \in SkipMessages THEN 1 ELSE 0)
    /\ errors_count' = errors_count
    /\ decision' = [decision EXCEPT ![filename] = DecisionOf(msg)]

\* The counter a record's branch increments.
Count(msg) ==
    /\ copied_count' = copied_count + (IF msg \in CopyMessages THEN 1 ELSE 0)
    /\ skipped_count' = skipped_count + (IF msg \in SkipMessages THEN 1 ELSE 0)
    /\ errors_count' = errors_count + (IF msg = ErrorMessage THEN 1 ELSE 0)
    /\ decision' = [decision EXCEPT ![filename] = DecisionOf(msg)]

\* Lines 55-56, 61-62, 72-73, 77-78, 84-85: the record is written to the
\* log, then the branch's counter is incremented.  A write that raises
\* leaves the record out of the log.
WriteRecord ==
    /\ pc = "write"
    /\ \/ /\ LogWrite(<< <<log_message, filename>> >>, dst)
          /\ Count(log_message)
          /\ pc' = "loop"
          /\ UNCHANGED <<nfaults, caught>>
       \/ /\ CanFault /\ Fault
          /\ OnFileException("write")
          /\ UNCHANGED <<dst, extLog, logWritten, logPos, copied_count,
                         skipped_count, errors_count, decision>>
    /\ UNCHANGED <<fsVars, dstDirs, logState, console, walkVars, total_files,
                   writes, exc, exit_status>>

\* Lines 86-90: the handler prints the error, writes it to the log and
\* counts it; an exception of its own leaves backup_files.
HandleError ==
    /\ pc = "except"
    /\ console' = Append(console, <<ErrorMessage, filename>>)
    /\ \/ /\ LogWrite(<< <<ErrorMessage, filename>> >>, dst)
          /\ Count(ErrorMessage)
          /\ pc' = "loop"
          /\ caught' = "none"
          /\ UNCHANGED <<nfaults, exc>>
       \/ /\ CanFault /\ Fault
          /\ \E kind \in {"OSError", "Other"} : Propagate(kind)
          /\ UNCHANGED <<dst, extLog, logWritten, logPos, copied_count,
                         skipped_count, errors_count, decision, caught>>
    /\ UNCHANGED <<fsVars, dstDirs, logState, walkVars, total_files, writes,
                   exit_status>>

\* Line 92.
Return ==
    /\ pc = "loop" /\ files = << >> /\ dirs_left = << >>
    /\ pc' = "returned"
    /\ UNCHANGED <<fsVars, dst, dstDirs, logVars, console, walkVars, countVars,
                   decision, writes, nfaults, caught, exc, exit_status>>

backup_files == WalkNext \/ NextFile \/ CopyFile \/ WriteRecord \/ HandleError \/ Return

Next == backup_files

Spec == Init /\ [][Next]_vars

----------------------------------------------------------------------------
(* main *)

\* The process starts: any source tree, no snapshot yet.
InitMain ==
    /\ pc = "main"
    /\ is_full_backup \in BOOLEAN
    /\ now \in Mtimes
    /\ src \in [Files -> MainSources \cup {Absent}]
    /\ dst = NoFiles
    /\ dst0 = dst
    /\ setup_failed = FALSE
    /\ dstDirs = {}
    /\ logInDst = TRUE
    /\ extLog = Absent
    /\ logState = "none"
    /\ logWritten = << >>
    /\ logPos = 0
    /\ console = << >>
    /\ dirs_left = WalkOrder
    /\ files = << >>
    /\ filename = ""
    /\ log_message = ""
    /\ copied_count = 0 /\ skipped_count = 0 /\ errors_count = 0 /\ total_files = 0
    /\ decision = [f \in Files |-> "NONE"]
    /\ writes = [f \in Files |-> 0]
    /\ nfaults = 0
    /\ caught = "none"
    /\ exc = "none"
    /\ exit_status = -1
    /\ NoRuns
    /\ NoTree
    /\ NoOrganizer

\* return from main: the interpreter exits with status 0.
ReturnFromMain == pc' = "exited" /\ exit_status' = 0

\* A setup failure: the message is printed and main returns.
SetupFailure(msg) ==
    /\ console' = Append(console, <<msg, "">>)
    /\ setup_failed' = TRUE
    /\ ReturnFromMain

\* Lines 102-108: os.path.isdir of the two arguments.
Validate ==
    /\ pc = "main"
    /\ \E source_isdir, destination_isdir \in BOOLEAN :
        IF ~source_isdir
        THEN SetupFailure("Error: Source directory does not exist.")
        ELSE IF ~destination_isdir
        THEN SetupFailure("Error: Destination directory does not exist.")
        ELSE pc' = "create" /\ UNCHANGED <<console, setup_failed, exit_status>>
    /\ UNCHANGED <<is_full_backup, now, src, dst, dst0, dstDirs, extLog, logInDst,
                   logState, logWritten, logPos, walkVars, countVars, decision,
                   writes, nfaults, caught, exc, runVars, treeVars, organizerVars>>

\* Lines 7-21 and 111-113: os.makedirs(backup_path) makes the snapshot root
\* or raises OSError, and then main returns.
create_backup_folder ==
    /\ pc = "create"
    /\ \/ /\ dstDirs' = {"."}
          /\ console' = Append(console, <<"Created new backup folder", "">>)
          /\ pc' = "open"
          /\ UNCHANGED <<setup_failed, exit_status>>
       \/ /\ SetupFailure("Error creating directory")
          /\ UNCHANGED dstDirs
    /\ UNCHANGED <<is_full_backup, now, src, dst, dst0, extLog, logInDst,
                   logState, logWritten, logPos, walkVars, countVars, decision,
                   writes, nfaults, caught, exc, runVars, treeVars, organizerVars>>

\* Lines 116-118 and 141-142: open(log_path, 'w') creates an empty
\* <snapshot>/backup.log, or raises IOError, which main reports.
OpenLog ==
    /\ pc = "open"
    /\ \/ /\ dst' = [dst EXCEPT ![LogName] = [ex |-> TRUE, content |-> << >>,
                                              mtime |-> now]]
          /\ logState' = "open"
          /\ pc' = "header"
          /\ UNCHANGED <<console, setup_failed, exit_status>>
       \/ /\ SetupFailure("Error creating or writing to log file")
          /\ UNCHANGED <<dst, logState>>
    /\ UNCHANGED <<is_full_backup, now, src, dst0, dstDirs, extLog, logInDst,
                   logWritten, logPos, walkVars, countVars, decision, writes,
                   nfaults, caught, exc, runVars, treeVars, organizerVars>>

Header == << <<"Backup Log - Started", IF is_full_backup THEN "Full" ELSE "Incremental">> >>

\* Lines 119-125: the header is written and backup_files is called.
WriteHeader ==
    /\ pc = "header"
    /\ \/ /\ LogWrite(Header, dst)
          /\ pc' = "loop"
          /\ UNCHANGED <<nfaults, exc>>
       \/ /\ CanFault /\ Fault
          /\ Propagate("OSError")
          /\ UNCHANGED <<dst, extLog, logWritten, logPos>>
    /\ UNCHANGED <<fsVars, dstDirs, logState, console, walkVars, countVars,
                   decision, writes, caught, exit_status>>

Summary == <<"--- Summary ---",
             ToString(<<total_files, copied_count, skipped_count, errors_count>>)>>

\* Lines 127-132: backup_files returned; the footer is written.
WriteFooter ==
    /\ pc = "returned"
    /\ \/ /\ LogWrite(<<Summary>>, dst)
          /\ pc' = "summary"
          /\ UNCHANGED <<nfaults, exc>>
       \/ /\ CanFault /\ Fault
          /\ Propagate("OSError")
          /\ UNCHANGED <<dst, extLog, logWritten, logPos>>
    /\ UNCHANGED <<fsVars, dstDirs, logState, console, walkVars, countVars,
                   decision, writes, caught, exit_status>>

\* Lines 134-139: the summary is printed; the with block ends and closes the
\* log; main returns.
PrintSummary ==
    /\ pc = "summary"
    /\ console' = Append(console, Summary)
    /\ LogClose
    /\ ReturnFromMain
    /\ UNCHANGED <<fsVars, dstDirs, walkVars, countVars, decision, writes,
                   nfaults, caught, exc>>

\* Lines 118 and 141-142: an exception leaves the with block, which closes
\* the log; except IOError prints it and main returns; any other exception
\* ends the process with a traceback and status 1.
ExceptIOError ==
    /\ pc = "raised"
    /\ LogClose
    /\ pc' = "exited"
    /\ IF exc = "OSError"
       THEN /\ console' = Append(console, <<"Error creating or writing to log file", "">>)
            /\ exit_status' = 0
       ELSE /\ exit_status' = 1
            /\ UNCHANGED console
    /\ UNCHANGED <<fsVars, dstDirs, walkVars, countVars, decision, writes,
                   nfaults, caught, exc>>

main == Validate \/ create_backup_folder \/ OpenLog \/ WriteHeader \/ WriteFooter
            \/ PrintSummary \/ ExceptIOError

NextMain == main \/ backup_files

SpecMain == InitMain /\ [][NextMain]_vars

----------------------------------------------------------------------------
(* Several runs of main against the same destination root.  A run is its     *)
(* steps on the shared directory: the timestamp, the makedirs of the        *)
(* snapshot, the open of the log, each copy into the snapshot.              *)

mainVars == <<pc, is_full_backup, now, src, dst, dst0, dstDirs, extLog, logInDst,
              logState, logWritten, logPos, console, dirs_left, files, filename,
              log_message, copied_count, skipped_count, errors_count, total_files,
              decision, writes, nfaults, caught, exc, setup_failed, exit_status>>

oneRunVars == <<mainVars, treeVars, organizerVars>>

InitRuns ==
    /\ clock = 0
    /\ run_pc = [r \in Runs |-> "start"]
    /\ timestamp = [r \in Runs |-> 0]
    /\ snapshots = {}
    /\ writers = [t \in Seconds |-> {}]
    /\ to_copy = [r \in Runs |-> FilesPerRun]
    /\ pc = "main"
    /\ is_full_backup = FALSE
    /\ now = 1
    /\ src = NoFiles
    /\ dst = NoFiles
    /\ dst0 = NoFiles
    /\ setup_failed = FALSE
    /\ dstDirs = {}
    /\ logInDst = TRUE
    /\ extLog = Absent
    /\ logState = "none"
    /\ logWritten = << >>
    /\ logPos = 0
    /\ console = << >>
    /\ dirs_left = WalkOrder
    /\ files = << >>
    /\ filename = ""
    /\ log_message = ""
    /\ copied_count = 0 /\ skipped_count = 0 /\ errors_count = 0 /\ total_files = 0
    /\ decision = [f \in Files |-> "NONE"]
    /\ writes = [f \in Files |-> 0]
    /\ nfaults = 0
    /\ caught = "none"
    /\ exc = "none"
    /\ exit_status = -1
    /\ NoTree
    /\ NoOrganizer

\* The wall clock passes to the next second.
Tick ==
    /\ clock < MaxClock
    /\ clock' = clock + 1
    /\ UNCHANGED <<run_pc, timestamp, snapshots, writers, to_copy, oneRunVars>>

\* Lines 12-14: the name of the snapshot is taken from the clock.
ReadClock(r) ==
    /\ run_pc[r] = "start"
    /\ timestamp' = [timestamp EXCEPT ![r] = clock]
    /\ run_pc' = [run_pc EXCEPT ![r] = "makedirs"]
    /\ UNCHANGED <<clock, snapshots, writers, to_copy, oneRunVars>>

\* os.makedirs(backup_path, exist_ok=True): an existing directory is accepted.
makedirs_exist_ok(t) == FALSE

\* os.makedirs(backup_path), line 16: mkdir raises FileExistsError when the
\* name is taken.
makedirs_raises(t) == t \in snapshots

\* Lines 15-21 and 111-113: the snapshot is made, or OSError is caught, None
\* returned and main returns.
MakeSnapshot(r) ==
    /\ run_pc[r] = "makedirs"
    /\ \/ /\ ~makedirs_raises(timestamp[r])
          /\ snapshots' = snapshots \cup {timestamp[r]}
          /\ run_pc' = [run_pc EXCEPT ![r] = "open"]
       \/ \* the name is taken, permission is denied, the disk is full
          /\ run_pc' = [run_pc EXCEPT ![r] = "aborted"]
          /\ UNCHANGED snapshots
    /\ UNCHANGED <<clock, timestamp, writers, to_copy, oneRunVars>>

\* Lines 116-118 and 141-142: the log is opened, or IOError ends the run.
OpenRunLog(r) ==
    /\ run_pc[r] = "open"
    /\ \E opened \in BOOLEAN :
        run_pc' = [run_pc EXCEPT ![r] = IF opened THEN "copy" ELSE "aborted"]
    /\ UNCHANGED <<clock, timestamp, snapshots, writers, to_copy, oneRunVars>>

\* Line 125: backup_files copies one more file into the run's snapshot.
CopyIntoSnapshot(r) ==
    /\ run_pc[r] = "copy" /\ to_copy[r] > 0
    /\ writers' = [writers EXCEPT ![timestamp[r]] = @ \cup {r}]
    /\ to_copy' = [to_copy EXCEPT ![r] = @ - 1]
    /\ UNCHANGED <<clock, run_pc, timestamp, snapshots, oneRunVars>>

\* Lines 127-139: the run ends.
FinishRun(r) ==
    /\ run_pc[r] = "copy" /\ to_copy[r] = 0
    /\ run_pc' = [run_pc EXCEPT ![r] = "done"]
    /\ UNCHANGED <<clock, timestamp, snapshots, writers, to_copy, oneRunVars>>

NextRuns ==
    \/ Tick
    \/ \E r \in Runs : ReadClock(r)
    \/ \E r \in Runs : MakeSnapshot(r)
    \/ \E r \in Runs : OpenRunLog(r)
    \/ \E r \in Runs : CopyIntoSnapshot(r)
    \/ \E r \in Runs : FinishRun(r)

SpecRuns == InitRuns /\ [][NextRuns]_vars

----------------------------------------------------------------------------
(* The walk of a tree of paths: main's setup, os.walk(source) with its     *)
(* directories listed when they are entered, os.makedirs(dest_dir) and the *)
(* files of each directory.  A path is the sequence of its names; the      *)
(* destination may lie inside the source.  What happens to a file's        *)
(* content and to the log is the matter of Spec and SpecMain: here a file  *)
(* is a path that exists.                                                  *)

\* How many names a path may have before the system refuses it
\* (ENAMETOOLONG).
PathMax == 5

SourceRoot == <<"s">>

Destinations == {<<"d">>, <<"s">>, <<"s", "backups">>}

\* backup_<timestamp>, line 13.
SnapshotName == "backup_T"

Names == {"a", "b", "sub", "deep", "backups", SnapshotName, LogName}

\* The paths that start with path p, p excluded.
Under(p, paths) ==
    {q \in paths : Len(q) > Len(p) /\ SubSeq(q, 1, Len(p)) = p}

\* The non-empty prefixes of path p.
Prefixes(p) == {SubSeq(p, 1, k) : k \in 1..Len(p)}

\* The sequences that list the elements of S, each once.
Orders(S) ==
    {s \in [1..Cardinality(S) -> S] : \A i, j \in 1..Cardinality(S) : s[i] = s[j] => i = j}

\* scandir(top) succeeds.
CanScan(top) == top \in fs_dirs /\ top \notin fs_locked

\* entry.is_dir() follows symbolic links: the dirs of os.walk.
ListDirs(top) == {n \in Names : top \o <<n>> \in fs_dirs \cup fs_links}

ListNondirs(top) == {n \in Names : top \o <<n>> \in fs_files}

\* os.path.relpath(root, source), line 37.
relpath(r, s) == SubSeq(r, Len(s) + 1, Len(r))

\* os.path.join(destination, relative_path), line 38.
dest_dir(r) == backup_folder \o relpath(r, source)

\* os.walk resumed: the directories whose dirs are exhausted are left, a dir
\* that is a symbolic link is not entered (followlinks=False), a dir whose
\* scandir raises is dropped without a word (onerror=None), until a
\* directory can be entered.
RECURSIVE NextYield(_)
NextYield(stack) ==
    IF stack = << >> THEN [found |-> FALSE, stack |-> << >>, top |-> << >>]
    ELSE LET n == Len(stack)
             frame == stack[n]
         IN  IF frame.dirs = << >> THEN NextYield(SubSeq(stack, 1, n - 1))
             ELSE LET new_path == frame.top \o <<Head(frame.dirs)>>
                      rest == [stack EXCEPT ![n].dirs = Tail(frame.dirs)]
                  IN  IF new_path \in fs_links \/ ~CanScan(new_path)
                      THEN NextYield(rest)
                      ELSE [found |-> TRUE, stack |-> rest, top |-> new_path]

\* backup_files on the files of Files is not modelled.
NoMain ==
    /\ pc = "none"
    /\ is_full_backup = FALSE
    /\ now = 1
    /\ src = NoFiles /\ dst = NoFiles /\ dst0 = NoFiles
    /\ setup_failed = FALSE
    /\ dstDirs = {}
    /\ logInDst = TRUE
    /\ extLog = Absent
    /\ logState = "none"
    /\ logWritten = << >> /\ logPos = 0
    /\ console = << >>
    /\ dirs_left = << >> /\ files = << >>
    /\ filename = "" /\ log_message = ""
    /\ copied_count = 0 /\ skipped_count = 0 /\ errors_count = 0 /\ total_files = 0
    /\ decision = [f \in Files |-> "NONE"]
    /\ writes = [f \in Files |-> 0]
    /\ nfaults = 0
    /\ caught = "none" /\ exc = "none"
    /\ exit_status = -1

\* The process starts: a source tree with a file a, a subdirectory sub (a
\* directory, one that cannot be listed, or a link to a directory elsewhere)
\* that may hold a file b and a directory deep, and a directory backups; the
\* destination is a directory outside the source, the source itself, or
\* backups.
InitTree ==
    /\ tree_pc = "main"
    /\ source = SourceRoot
    /\ destination \in Destinations
    /\ \E kind \in {"none", "dir", "locked", "link"}, inner \in SUBSET {"b", "deep"},
          top \in SUBSET {"a", "backups"} :
        /\ kind \in {"none", "link"} => inner = {}
        /\ fs_dirs = {SourceRoot, <<"d">>}
                        \cup (IF kind \in {"dir", "locked"} THEN {<<"s", "sub">>} ELSE {})
                        \cup (IF "deep" \in inner THEN {<<"s", "sub", "deep">>} ELSE {})
                        \cup (IF "backups" \in top THEN {<<"s", "backups">>} ELSE {})
        /\ fs_links = IF kind = "link" THEN {<<"s", "sub">>} ELSE {}
        /\ fs_locked = IF kind = "locked" THEN {<<"s", "sub">>} ELSE {}
        /\ fs_files = (IF "a" \in top THEN {<<"s", "a">>} ELSE {})
                        \cup (IF "b" \in inner THEN {<<"s", "sub", "b">>} ELSE {})
    /\ source0 = Under(source, fs_dirs \cup fs_links) \cup {source}
    /\ backup_folder = << >>
    /\ walk_stack = << >>
    /\ cur_root = << >>
    /\ nondirs = {}
    /\ visited = << >>
    /\ made = {}
    /\ failed = {}
    /\ summary_printed = FALSE
    /\ NoMain
    /\ NoRuns
    /\ NoOrganizer

\* Lines 102-125: the two arguments are directories, create_backup_folder
\* makes backup_<timestamp> under the destination, the log is opened in it
\* and backup_files is called; else main returns.
SetUp ==
    /\ tree_pc = "main"
    /\ IF source \in fs_dirs /\ destination \in fs_dirs
       THEN \/ /\ backup_folder' = destination \o <<SnapshotName>>
               /\ fs_dirs' = fs_dirs \cup {backup_folder'}
               /\ fs_files' = fs_files \cup {backup_folder' \o <<LogName>>}
               /\ walk_stack' = << [top |-> << >>, dirs |-> source] >>
               /\ tree_pc' = "walk"
            \/ \* os.makedirs(backup_path) or open(log_path, 'w') raises
               /\ tree_pc' = "exited"
               /\ UNCHANGED <<backup_folder, fs_dirs, fs_files, walk_stack>>
       ELSE /\ tree_pc' = "exited"
            /\ UNCHANGED <<backup_folder, fs_dirs, fs_files, walk_stack>>
    /\ UNCHANGED <<fs_links, fs_locked, source, destination, cur_root, nondirs, visited,
                   made, source0, failed, summary_printed, mainVars, runVars, organizerVars>>

\* os.makedirs(d, exist_ok=True) raises: the path is too long, or one of its
\* prefixes is a regular file.
makedirs_fails(d) == Len(d) > PathMax \/ Prefixes(d) \cap fs_files # {}

\* Lines 33-41: os.walk yields the next directory with the dirs and files it
\* holds now; its destination directory is made with its missing parents,
\* or OSError leaves backup_files.
WalkTree ==
    /\ tree_pc = "walk" /\ nondirs = {}
    /\ LET y == NextYield(walk_stack) IN
        /\ y.found
        /\ \E dirs \in Orders(ListDirs(y.top)) :
              walk_stack' = Append(y.stack, [top |-> y.top, dirs |-> dirs])
        /\ cur_root' = y.top
        /\ visited' = Append(visited, y.top)
        /\ IF makedirs_fails(dest_dir(y.top))
           THEN /\ tree_pc' = "raised"
                /\ UNCHANGED <<fs_dirs, made, nondirs>>
           ELSE /\ fs_dirs' = fs_dirs \cup Prefixes(dest_dir(y.top))
                /\ made' = made \cup (Prefixes(dest_dir(y.top)) \ fs_dirs)
                /\ nondirs' = ListNondirs(y.top)
                /\ UNCHANGED tree_pc
    /\ UNCHANGED <<fs_links, fs_locked, fs_files, source, destination, backup_folder,
                   source0, failed, summary_printed, mainVars, runVars, organizerVars>>

\* Lines 43-90: one file of the directory: its destination exists after a
\* copy or a skip; shutil.copy2 that raises (always when the destination
\* path is too long) ends in the handler.
BackupFile ==
    /\ tree_pc = "walk" /\ nondirs # {}
    /\ \E name \in nondirs :
        /\ nondirs' = nondirs \ {name}
        /\ LET dest_file == dest_dir(cur_root) \o <<name>> IN
            \/ /\ Len(dest_file) <= PathMax
               /\ fs_files' = fs_files \cup {dest_file}
               /\ UNCHANGED failed
            \/ /\ failed' = failed \cup {cur_root \o <<name>>}
               /\ UNCHANGED fs_files
    /\ UNCHANGED <<tree_pc, fs_dirs, fs_links, fs_locked, source, destination,
                   backup_folder, walk_stack, cur_root, visited, made, source0,
                   summary_printed, mainVars, runVars, organizerVars>>

\* Line 92: os.walk is exhausted and backup_files returns.
ReturnTree ==
    /\ tree_pc = "walk" /\ nondirs = {}
    /\ ~NextYield(walk_stack).found
    /\ walk_stack' = << >>
    /\ tree_pc' = "returned"
    /\ UNCHANGED <<fs_dirs, fs_links, fs_locked, fs_files, source, destination,
                   backup_folder, cur_root, nondirs, visited, made, source0, failed,
                   summary_printed, mainVars, runVars, organizerVars>>

\* Lines 127-142: after backup_files returned the summary is printed; after
\* it raised OSError, except IOError prints the error; main returns.
EndTree ==
    /\ tree_pc \in {"returned", "raised"}
    /\ summary_printed' = (tree_pc = "returned")
    /\ tree_pc' = "exited"
    /\ UNCHANGED <<fs_dirs, fs_links, fs_locked, fs_files, source, destination,
                   backup_folder, walk_stack, cur_root, nondirs, visited, made, source0,
                   failed, mainVars, runVars, organizerVars>>

NextTree == SetUp \/ WalkTree \/ BackupFile \/ ReturnTree \/ EndTree

SpecTree == InitTree /\ [][NextTree]_vars

----------------------------------------------------------------------------
(* src/file_organizer.py: organize_files(source_dir, dry_run).  The        *)
(* directory is a map from the paths below source_dir (a path is the       *)
(* sequence of its names) to what is there: nothing, a regular file with   *)
(* its content, or a directory.                                            *)

\* os.path.splitext(item)[1].
splitext(item) ==
    CASE item = "a.txt" -> ".txt"
      [] item = "B.TXT" -> ".TXT"
      [] OTHER -> ""

\* str.lower().
lower(s) == IF s = ".TXT" THEN ".txt" ELSE s

\* str.strip('.').
strip_dot(s) == IF s = ".txt" THEN "txt" ELSE s

\* Lines 33-38: the key of files_by_extension an item is filed under.
ExtensionOf(item) ==
    LET extension == strip_dot(lower(splitext(item)))
    IN  IF extension # "" THEN extension ELSE "no_extension"

exists(p) == folder[p].kind # "none"

isdir(p) == folder[p].kind = "dir"

isfile(p) == folder[p].kind = "file"

\* files_by_extension[extension].append(item_path): a new key comes last.
AppendTo(groups, extension, item) ==
    IF \E i \in 1..Len(groups) : groups[i].extension = extension
    THEN [i \in 1..Len(groups) |->
            IF groups[i].extension = extension
            THEN [groups[i] EXCEPT !.file_list = Append(@, item)]
            ELSE groups[i]]
    ELSE Append(groups, [extension |-> extension, file_list |-> <<item>>])

\* organize_files is called on a directory that may hold a.txt, B.TXT and
\* notes, a file or a folder named txt, a folder no_extension, and in the
\* folders files (or, for txt/a.txt, a folder) with the names of the files
\* to move, of a different content.
InitOrganize ==
    /\ org_pc = "start"
    /\ dry_run \in BOOLEAN
    /\ folder \in [OrgPaths -> {Nothing, Directory, RegularFile("new"), RegularFile("old")}]
    /\ \A n \in {"a.txt", "B.TXT", "notes"} : folder[<<n>>] \in {Nothing, RegularFile("new")}
    /\ folder[<<"txt">>] \in {Nothing, Directory, RegularFile("new")}
    /\ folder[<<"no_extension">>] \in {Nothing, Directory}
    /\ folder[<<"txt", "a.txt">>] \in
            IF isdir(<<"txt">>) THEN {Nothing, Directory, RegularFile("old")} ELSE {Nothing}
    /\ folder[<<"txt", "B.TXT">>] = Nothing
    /\ folder[<<"txt", "a.txt", "a.txt">>] \in
            IF isdir(<<"txt", "a.txt">>) THEN {Nothing, RegularFile("old")} ELSE {Nothing}
    /\ \A n \in {"notes", "txt"} :
            folder[<<"no_extension", n>>] \in
                IF isdir(<<"no_extension">>) THEN {Nothing, RegularFile("old")} ELSE {Nothing}
    /\ folder0 = folder
    /\ to_scan = {}
    /\ files_by_extension = << >>
    /\ groups_left = << >>
    /\ target_dir = << >>
    /\ file_list = << >>
    /\ org_total_files = 0
    /\ processed_count = 0
    /\ report = << >>
    /\ NoMain /\ NoRuns /\ NoTree

scanVars == <<to_scan, files_by_extension, org_total_files>>

\* Lines 17-28: the banner; source_dir is not a directory and
\* organize_files returns, or os.listdir lists it.
Start ==
    /\ org_pc = "start"
    /\ \E source_isdir \in BOOLEAN :
        IF source_isdir
        THEN /\ to_scan' = {n \in Items \cup FolderNames : exists(<<n>>)}
             /\ report' = Append(report, <<"Scanning directory...", "">>)
             /\ org_pc' = "scan"
        ELSE /\ report' = Append(report, <<"Error: Directory not found", "">>)
             /\ org_pc' = "done"
             /\ UNCHANGED to_scan
    /\ UNCHANGED <<dry_run, folder, folder0, files_by_extension, groups_left,
                   target_dir, file_list, org_total_files, processed_count,
                   mainVars, runVars, treeVars>>

\* Lines 28-38: one item of the listing, in the order the system gave.
ScanItem ==
    /\ org_pc = "scan"
    /\ \E item \in to_scan :
        /\ to_scan' = to_scan \ {item}
        /\ IF isfile(<<item>>)
           THEN /\ org_total_files' = org_total_files + 1
                /\ files_by_extension' =
                        AppendTo(files_by_extension, ExtensionOf(item), item)
           ELSE UNCHANGED <<org_total_files, files_by_extension>>
    /\ UNCHANGED <<org_pc, dry_run, folder, folder0, groups_left, target_dir,
                   file_list, processed_count, report, mainVars, runVars, treeVars>>

\* Lines 40-45: nothing to organize, or the loop over the groups begins.
EndScan ==
    /\ org_pc = "scan" /\ to_scan = {}
    /\ IF files_by_extension = << >>
       THEN /\ report' = Append(report, <<"No files found to organize.", "">>)
            /\ org_pc' = "done"
            /\ UNCHANGED groups_left
       ELSE /\ groups_left' = files_by_extension
            /\ org_pc' = "group"
            /\ UNCHANGED report
    /\ UNCHANGED <<dry_run, folder, folder0, scanVars, target_dir, file_list,
                   processed_count, mainVars, runVars, treeVars>>

\* The test of dry_run at line 51 left out: the folder is made in a dry run.
EnsureFolder_NoDryRun(t, fl) ==
    IF exists(t)
    THEN /\ file_list' = fl /\ org_pc' = "move"
         /\ UNCHANGED <<folder, report>>
    ELSE \/ /\ folder' = [folder EXCEPT ![t] = Directory]
            /\ report' = Append(report, <<"Created folder", t[1]>>)
            /\ file_list' = fl /\ org_pc' = "move"
         \/ /\ \E msg \in {"Error: Permission denied to create folder",
                           "Error creating folder"} :
                    report' = Append(report, <<msg, t[1]>>)
            /\ file_list' = << >> /\ org_pc' = "group"
            /\ UNCHANGED folder

\* Lines 50-62: target folder t of a group with the files fl: it exists; or
\* a dry run says it would be created; or os.makedirs creates it, or raises
\* and the group is skipped (continue).
EnsureFolder(t, fl) ==
    IF exists(t)
    THEN /\ file_list' = fl /\ org_pc' = "move"
         /\ UNCHANGED <<folder, report>>
    ELSE IF dry_run
    THEN /\ report' = Append(report, <<"Would create folder", t[1]>>)
         /\ file_list' = fl /\ org_pc' = "move"
         /\ UNCHANGED folder
    ELSE \/ /\ folder' = [folder EXCEPT ![t] = Directory]
            /\ report' = Append(report, <<"Created folder", t[1]>>)
            /\ file_list' = fl /\ org_pc' = "move"
         \/ /\ \E msg \in {"Error: Permission denied to create folder",
                           "Error creating folder"} :
                    report' = Append(report, <<msg, t[1]>>)
            /\ file_list' = << >> /\ org_pc' = "group"
            /\ UNCHANGED folder

\* Lines 45-62: the next group of files_by_extension and its target folder.
BeginGroup ==
    /\ org_pc = "group" /\ groups_left # << >>
    /\ LET group == Head(groups_left)
           folder_name == group.extension
       IN  /\ groups_left' = Tail(groups_left)
           /\ target_dir' = <<folder_name>>
           /\ EnsureFolder(<<folder_name>>, group.file_list)
    /\ UNCHANGED <<dry_run, folder0, scanVars, processed_count, mainVars, runVars,
                   treeVars>>

\* shutil.move(file_path, destination_path) and lines 75-79: a destination
\* that is a directory takes the file under its own name, unless that name
\* is taken there; else os.rename puts the file at the destination, whatever
\* regular file was there; a target_dir that is a regular file, or a refusal
\* of the system, raises and the file stays.
move(file_path, destination_path, file_name) ==
    LET real_dst == IF isdir(destination_path)
                    THEN destination_path \o <<file_name>>
                    ELSE destination_path
    IN  \/ /\ isdir(target_dir)
           /\ ~(isdir(destination_path) /\ exists(real_dst))
           /\ folder' = [folder EXCEPT ![real_dst] = folder[file_path],
                                       ![file_path] = Nothing]
           /\ report' = Append(report, <<"Moved", file_name>>)
        \/ /\ isdir(destination_path) /\ exists(real_dst)
           /\ report' = Append(report, <<"Error moving: Destination path already exists",
                                         file_name>>)
           /\ UNCHANGED folder
        \/ /\ ~isdir(target_dir)
           /\ report' = Append(report, <<"Error moving: Not a directory", file_name>>)
           /\ UNCHANGED folder
        \/ /\ report' = Append(report, <<"Error: Permission denied to move", file_name>>)
           /\ UNCHANGED folder

\* Lines 65-79: the next file of the group.
MoveFile ==
    /\ org_pc = "move" /\ file_list # << >>
    /\ LET file_name == Head(file_list)
           destination_path == target_dir \o <<file_name>>
       IN  /\ file_list' = Tail(file_list)
           /\ processed_count' = processed_count + 1
           /\ IF dry_run
              THEN /\ report' = Append(report, <<"[Dry Run] Would move", file_name>>)
                   /\ UNCHANGED folder
              ELSE move(<<file_name>>, destination_path, file_name)
    /\ UNCHANGED <<org_pc, dry_run, folder0, scanVars, groups_left, target_dir,
                   mainVars, runVars, treeVars>>

\* Lines 81-83: the progress of the run after a group.
EndGroup ==
    /\ org_pc = "move" /\ file_list = << >>
    /\ LET percentage == (processed_count * 100) \div org_total_files
       IN  report' = Append(report, <<"Progress",
                                      ToString(<<processed_count, org_total_files,
                                                 percentage>>)>>)
    /\ org_pc' = "group"
    /\ UNCHANGED <<dry_run, folder, folder0, scanVars, groups_left, target_dir,
                   file_list, processed_count, mainVars, runVars, treeVars>>

\* Line 85.
Finish ==
    /\ org_pc = "group" /\ groups_left = << >>
    /\ report' = Append(report, <<"Organization complete.", "">>)
    /\ org_pc' = "done"
    /\ UNCHANGED <<dry_run, folder, folder0, scanVars, groups_left, target_dir,
                   file_list, processed_count, mainVars, runVars, treeVars>>

organize_files == Start \/ ScanItem \/ EndScan \/ BeginGroup \/ MoveFile
                    \/ EndGroup \/ Finish

SpecOrganize == InitOrganize /\ [][organize_files]_vars

----------------------------------------------------------------------------
(* Properties *)

Present == {f \in Files : src[f].ex}

Processed == copied_count + skipped_count + errors_count

CopyDecisions == {"COPY_NEW", "COPY_MODIFIED", "COPY_NEWER"}

SkipDecisions == {"SKIP_IDENTICAL", "SKIP_UP_TO_DATE"}

\* C1: when backup_files returns, copied + skipped + errors = total_files;
\* during the walk no counter decreases and copied + skipped + errors never
\* exceeds total_files.
C1_CountersBalance ==
    /\ [](Processed <= total_files)
    /\ [](pc = "returned" => Processed = total_files)
    /\ [][/\ copied_count' >= copied_count
          /\ skipped_count' >= skipped_count
          /\ errors_count' >= errors_count
          /\ total_files' >= total_files]_vars

\* A run that returned with a file copied, a file skipped and a file failed.
C1_Witness ==
    /\ pc = "returned"
    /\ copied_count = 1 /\ skipped_count = 1 /\ errors_count = 1
    /\ total_files = 3

\* The reference table of the decision for source file s and destination
\* file d.
RefDecision(s, d, full) ==
    CASE ~d.ex -> "COPY_NEW"
      [] d.ex /\ full /\ s.content = d.content -> "SKIP_IDENTICAL"
      [] d.ex /\ full /\ s.content # d.content -> "COPY_MODIFIED"
      [] d.ex /\ ~full /\ s.mtime > d.mtime -> "COPY_NEWER"
      [] d.ex /\ ~full /\ s.mtime <= d.mtime -> "SKIP_UP_TO_DATE"

\* a.txt new, b.txt identical to its destination copy, c.txt modified,
\* FULL mode (the three files in any assignment to the three paths).
Scenario ==
    /\ is_full_backup
    /\ Present = Files
    /\ \E a, b, c \in Files :
        /\ {a, b, c} = Files
        /\ ~dst0[a].ex
        /\ dst0[b].ex /\ dst0[b].content = src[b].content
        /\ dst0[c].ex /\ dst0[c].content # src[c].content

\* C2: the branch taken for a file on which no exception occurs is the one
\* of the reference table (absent -> COPY_NEW; FULL: equal contents ->
\* SKIP_IDENTICAL, else COPY_MODIFIED; INCREMENTAL: source newer ->
\* COPY_NEWER, else SKIP_UP_TO_DATE), it is the Decision recorded, and the
\* scenario new/identical/modified in FULL mode ends with copied=2,
\* skipped=1, errors=0, total=3.
C2_DecisionTable ==
    /\ [][pc = "loop" /\ pc' \in {"copy", "write"} =>
            DecisionOf(log_message') =
                RefDecision(src[filename'], dst[filename'], is_full_backup)]_vars
    /\ [][pc = "write" /\ pc' = "loop" =>
            decision'[filename] = DecisionOf(log_message)]_vars
    /\ [](Scenario /\ nfaults = 0 /\ pc = "returned" =>
            /\ copied_count = 2 /\ skipped_count = 1
            /\ errors_count = 0 /\ total_files = 3)

\* The scenario ran to its end; one of the files differed from its
\* destination copy in content only.
C2_Witness ==
    /\ Scenario /\ nfaults = 0 /\ pc = "returned"
    /\ \E c \in Files : /\ decision[c] = "COPY_MODIFIED"
                        /\ dst0[c].mtime = src[c].mtime
                        /\ Len(dst0[c].content) = Len(src[c].content)

\* C3: after a run, every source file whose Decision was a COPY_* one has a
\* destination file at the same path with the source's content and the
\* source's modification time.
C3_CopiedFilesMirrorSource ==
    pc \in {"returned", "exited"} =>
        \A f \in Files :
            decision[f] \in CopyDecisions =>
                /\ dst[f].ex
                /\ dst[f].content = src[f].content
                /\ dst[f].mtime = src[f].mtime

\* C4: the step that records a SKIP_* Decision changes no destination file.
C4_SkipWritesNothing ==
    [][pc = "write" /\ pc' = "loop" /\ log_message \in SkipMessages =>
            dst' = dst]_vars

\* C5: an exception raised while a file is compared or copied reaches the
\* per-file handler, which records exactly one ERROR Decision for that file,
\* adds one to errors and leaves the walk where it was; a run that returns
\* has given every source file a Decision.
C5_FileFailureIsLocal ==
    /\ [][nfaults' > nfaults /\ (pc = "copy" \/ (pc = "loop" /\ files # << >>)) =>
            pc' = "except"]_vars
    /\ [][pc = "except" /\ caught \in {"compare", "copy2"} /\ pc' = "loop" =>
            /\ decision[filename] = "NONE"
            /\ decision' = [decision EXCEPT ![filename] = "ERROR"]
            /\ errors_count' = errors_count + 1
            /\ copied_count' = copied_count /\ skipped_count' = skipped_count
            /\ files' = files /\ dirs_left' = dirs_left]_vars
    /\ [](pc = "returned" => \A f \in Present : decision[f] # "NONE")
    /\ [](errors_count = Cardinality({f \in Files : decision[f] = "ERROR"}))

\* The first file failed while it was compared or copied, and the two files
\* after it were still copied or skipped.
C5_Witness ==
    /\ pc = "returned"
    /\ decision["backup.log"] = "ERROR"
    /\ errors_count = 1
    /\ decision["a"] \in CopyDecisions \cup SkipDecisions
    /\ decision["sub/b"] \in CopyDecisions \cup SkipDecisions

\* C6: a file whose Decision is ERROR because the log write that follows its
\* successful copy failed was not written; more generally the destination is
\* written at most once, and only for a file whose Decision is a COPY_* one.
C6_WrittenOnlyWhenCopied ==
    /\ [][pc = "except" /\ caught = "write" /\ pc' = "loop" =>
            writes[filename] = 0]_vars
    /\ [](\A f \in Files : decision[f] \in SkipDecisions => writes[f] = 0)
    /\ [](\A f \in Files : writes[f] <= 1)

IsHeader(u) == u[1] = "Backup Log - Started"

IsFooter(u) == u[1] = "--- Summary ---"

IsRecord(u) == u[1] \in CopyMessages \cup SkipMessages \cup {ErrorMessage}

\* C7: the log is INIT -> LOGGING -> CLOSED: the header comes first, the
\* footer last, and a log that holds the header is closed only after the
\* footer was written.
C7_LogClosedAfterFooter ==
    /\ \A i \in 1..Len(logWritten) :
        /\ IsHeader(logWritten[i]) <=> i = 1
        /\ IsFooter(logWritten[i]) => i = Len(logWritten) /\ i > 1
    /\ logState = "closed" /\ logWritten # << >> =>
        IsFooter(logWritten[Len(logWritten)])

RECURSIVE Records(_)
Records(s) ==
    IF s = << >> THEN << >>
    ELSE IF IsRecord(Head(s)) THEN <<Head(s)>> \o Records(Tail(s))
    ELSE Records(Tail(s))

\* C8: between two files, the per-file records printed to the console are
\* the per-file records written to the log, in the same order.
C8_ConsoleMirrorsLog ==
    pc = "loop" => Records(console) = Records(logWritten)

\* C9: the exit status is non-zero exactly when a setup failure occurred.
C9_ExitStatus ==
    pc = "exited" => (exit_status # 0 <=> setup_failed)

\* C10: a snapshot is populated by at most one run, and a run that could not
\* make its snapshot or open its log copied nothing.
C10_SnapshotHasOneWriter ==
    /\ \A t \in Seconds : Cardinality(writers[t]) <= 1
    /\ \A r \in Runs : run_pc[r] = "aborted" =>
            /\ to_copy[r] = FilesPerRun
            /\ \A t \in Seconds : r \notin writers[t]

\* Two runs took the same second: one populated the snapshot, the other
\* found the name taken and aborted.
C10_Witness ==
    \E r1, r2 \in Runs :
        /\ r1 # r2
        /\ timestamp[r1] = timestamp[r2]
        /\ run_pc[r1] = "done" /\ writers[timestamp[r1]] = {r1}
        /\ run_pc[r2] = "aborted"

\* The directories and links of the source tree that a listing of their
\* parents, from the source root down, reaches.
Reachable ==
    {d \in source0 :
        \A k \in Len(source)..(Len(d) - 1) :
            SubSeq(d, 1, k) \in fs_dirs \ fs_locked}

\* The path under the snapshot root that mirrors source path d.
Mirror(d) == backup_folder \o relpath(d, source)

\* C11: when backup_files has returned, every directory reachable under the
\* source root (empty, with files that all failed, listed but not entered)
\* has a directory at the same relative path under the snapshot root.
C11_EveryDirectoryMirrored ==
    tree_pc = "returned" => \A d \in Reachable : Mirror(d) \in fs_dirs

\* C12: no file copy of the run reads <snapshot>/backup.log as an existing
\* destination file or writes it, and the closed log holds what the run
\* wrote to it (the header, the records, the footer) and nothing else.
C12_LogIsNoCopyTarget ==
    logInDst =>
        /\ (pc \in {"copy", "write"} /\ filename = LogName =>
                log_message = "COPYING (New)")
        /\ writes[LogName] = 0
        /\ (logState = "closed" => dst[LogName].content = logWritten)

Reported(msg) == \E i \in 1..Len(report) : report[i][1] = msg

\* C13: organize_files called with dry_run=True changes nothing below
\* source_dir (no step of it creates a folder, moves or renames a file) and
\* reports no folder as created and no file as moved.
C13_DryRunChangesNothing ==
    /\ [][dry_run => folder' = folder]_vars
    /\ [](dry_run => folder = folder0)
    /\ [](dry_run => ~Reported("Created folder") /\ ~Reported("Moved"))

\* A dry run that ended after it said it would create a folder and would
\* move a.txt to a folder txt that holds a file a.txt already.
C13_Witness ==
    /\ dry_run /\ org_pc = "done"
    /\ Reported("Would create folder")
    /\ \E i \in 1..Len(report) : report[i] = <<"[Dry Run] Would move", "a.txt">>
    /\ folder0[<<"txt", "a.txt">>].kind = "file"
    /\ processed_count = org_total_files /\ org_total_files >= 2

\* C14: the walk yields no directory twice and no directory that the run
\* made (the snapshot root or a directory os.makedirs created under it),
\* and a run that made its snapshot and opened its log ends with the
\* summary.
C14_SinglePass ==
    /\ \A i, j \in 1..Len(visited) : visited[i] = visited[j] => i = j
    /\ \A i \in 1..Len(visited) : visited[i] \notin made \cup {backup_folder}
    /\ (tree_pc = "exited" /\ backup_folder # << >> => summary_printed)

\* The last name of path p.
basename(p) == p[Len(p)]

\* C15: organize_files with dry_run=False destroys no data: every regular
\* file that was in source_dir or in an extension subfolder when it was
\* called is still there, under its name and with its content, in
\* source_dir or in a subfolder.
C15_NoFileLost ==
    ~dry_run =>
        \A p \in OrgPaths :
            folder0[p].kind = "file" =>
                \E q \in OrgPaths :
                    /\ basename(q) = basename(p)
                    /\ folder[q] = folder0[p]

====
